---- MODULE Spec2Model ----
(***************************************************************************)
(* yek: the directory-tree core (src/src/tree.rs).                         *)
(*                                                                         *)
(* generate_tree folds a batch of paths into a hierarchy of TreeNodes and  *)
(* renders it as text.  Strings are sequences of character codes, so that  *)
(* the case-sensitive lexicographic order of names and the layout of the   *)
(* rendered text are computed, not assumed.  A TreeNode is identified by   *)
(* the sequence of HashMap keys that leads to it from the root; the tree   *)
(* is a function from these identifiers to the node's own fields.          *)
(***************************************************************************)
EXTENDS Integers, Sequences, FiniteSets, TLC

\* The longest batch handed to generate_tree.
MaxPaths == 3

\* The most components behind the prefix, root or "." that starts a path of
\* CleanPaths.
MaxComponents == 4

\* The most calls of add_path_to_tree_with_type made on one root.
MaxCalls == 3

----------------------------------------------------------------------------
\* String literals of the source, as character codes.

\* "Directory structure:\n"
Header == <<68, 105, 114, 101, 99, 116, 111, 114, 121, 32,
            115, 116, 114, 117, 99, 116, 117, 114, 101, 58, 10>>
\* "└── "
LastConnector == <<9492, 9472, 9472, 32>>
\* "├── "
MidConnector == <<9500, 9472, 9472, 32>>
\* "│   "
BarBlock == <<9474, 32, 32, 32>>
\* "    "
SpaceBlock == <<32, 32, 32, 32>>
\* '/'
Slash == <<47>>
\* '\n'
Newline == <<10>>
\* ".."
DotDot == <<46, 46>>

----------------------------------------------------------------------------
\* std::path::Component, as Path::components() yields them.

Prefix(s) == [kind |-> "Prefix", text |-> s]
RootDir == [kind |-> "RootDir", text |-> <<47>>]
CurDir == [kind |-> "CurDir", text |-> <<46>>]
ParentDir == [kind |-> "ParentDir", text |-> <<46, 46>>]
Normal(s) == [kind |-> "Normal", text |-> s]

\* OsStr::to_string_lossy: text that is valid UTF-8 is kept (the names of the
\* model are ASCII, one byte a character); a byte that can occur in no UTF-8
\* encoding (0xF8..0xFF) becomes U+FFFD.
to_string_lossy(s) ==
    [k \in 1..Len(s) |-> IF s[k] >= 248 /\ s[k] <= 255 THEN 65533 ELSE s[k]]

\* The closure with the CurDir arm missing: "." falls through to the names.
filter_component_keeping_cur_dir(component) ==
    CASE component.kind \in {"Prefix", "RootDir"} -> <<>>
      [] component.kind = "ParentDir" -> <<DotDot>>
      [] OTHER -> <<to_string_lossy(component.text)>>

\* The closure with the RootDir arm missing from the first pattern: the root
\* marker becomes a component named "/".
filter_component_keeping_root_dir(component) ==
    CASE component.kind = "Prefix" -> <<>>
      [] component.kind = "RootDir" -> <<<<47>>>>
      [] component.kind = "CurDir" -> <<>>
      [] component.kind = "ParentDir" -> <<DotDot>>
      [] OTHER -> <<to_string_lossy(component.text)>>

\* The closure of clean_path_components: None is the empty sequence, Some(x)
\* the one-element sequence.
filter_component(component) ==
    CASE component.kind \in {"Prefix", "RootDir"} -> <<>>
      [] component.kind = "CurDir" -> <<>>
      [] component.kind = "ParentDir" -> <<DotDot>>
      [] OTHER -> <<to_string_lossy(component.text)>>

RECURSIVE clean_path_components(_)
clean_path_components(path) ==
    IF path = <<>> THEN <<>>
    ELSE filter_component(Head(path)) \o clean_path_components(Tail(path))

----------------------------------------------------------------------------
\* TreeNode and the hierarchy.

\* TreeNode::new(): the root.
new == [name |-> <<>>, is_file |-> FALSE]

\* TreeNode::new_with_name(name, is_file); its children map starts empty.
new_with_name(name, is_file) == [name |-> name, is_file |-> is_file]

\* The tree holding only the root.
EmptyTree == (<<>> :> new)

\* node.children: the nodes one key below `node`.
Children(t, node) ==
    {m \in DOMAIN t : Len(m) = Len(node) + 1 /\ SubSeq(m, 1, Len(node)) = node}

\* insert_final without the children.is_empty() test: a file request always
\* turns an existing directory into a file.
insert_final_always_demotes(t, current, name, final_is_file) ==
    LET key == Append(current, name) IN
    IF key \in DOMAIN t
    THEN IF t[key].is_file /\ ~final_is_file
         THEN [t EXCEPT ![key].is_file = FALSE]
         ELSE IF ~t[key].is_file /\ final_is_file
              THEN [t EXCEPT ![key].is_file = TRUE]
              ELSE t
    ELSE t @@ (key :> new_with_name(name, final_is_file))

\* insert_final written with entry().or_insert_with() alone: an existing
\* node keeps the kind it has.
insert_final_keeps_existing(t, current, name, final_is_file) ==
    LET key == Append(current, name) IN
    IF key \in DOMAIN t THEN t
    ELSE t @@ (key :> new_with_name(name, final_is_file))

\* The body of the loop of add_path_to_tree_with_type for the final component.
insert_final(t, current, name, final_is_file) ==
    LET key == Append(current, name) IN
    IF key \in DOMAIN t
    THEN IF t[key].is_file /\ ~final_is_file
         THEN [t EXCEPT ![key].is_file = FALSE]
         ELSE IF ~t[key].is_file /\ final_is_file
              THEN IF Children(t, key) = {}
                   THEN [t EXCEPT ![key].is_file = TRUE]
                   ELSE t
              ELSE t
    ELSE t @@ (key :> new_with_name(name, final_is_file))

\* insert_intermediate without the conversion of a file into a directory.
insert_intermediate_keeps_kind(t, current, name) ==
    LET key == Append(current, name) IN
    IF key \in DOMAIN t THEN t
    ELSE t @@ (key :> new_with_name(name, FALSE))

\* The body of the loop for an intermediate component.
insert_intermediate(t, current, name) ==
    LET key == Append(current, name)
        t1 == IF key \in DOMAIN t THEN t
              ELSE t @@ (key :> new_with_name(name, FALSE))
    IN IF t1[key].is_file THEN [t1 EXCEPT ![key].is_file = FALSE] ELSE t1

\* insert_component whose final branch inserts without looking for an
\* existing entry: HashMap::insert replaces the entry, and with it the
\* children the old node owned.
insert_component_replacing(t, current, comps, i, final_is_file) ==
    IF i = Len(comps) - 1
    THEN LET key == Append(current, comps[i + 1])
             kept == {n \in DOMAIN t :
                        ~(Len(n) >= Len(key) /\ SubSeq(n, 1, Len(key)) = key)}
         IN [n \in kept \cup {key} |->
               IF n = key THEN new_with_name(comps[i + 1], final_is_file)
               ELSE t[n]]
    ELSE insert_intermediate(t, current, comps[i + 1])

\* One iteration of `for (i, name) in components.iter().enumerate()`.
insert_component(t, current, comps, i, final_is_file) ==
    IF i = Len(comps) - 1
    THEN insert_final(t, current, comps[i + 1], final_is_file)
    ELSE insert_intermediate(t, current, comps[i + 1])

\* The whole loop, from iteration i with `current` where the loop left it.
RECURSIVE insert_from(_, _, _, _, _)
insert_from(t, current, comps, i, final_is_file) ==
    IF i >= Len(comps) THEN t
    ELSE insert_from(insert_component(t, current, comps, i, final_is_file),
                     Append(current, comps[i + 1]), comps, i + 1, final_is_file)

\* add_path_to_tree_with_type as a function of the tree.
add_path_to_tree_with_type(t, path, final_is_file) ==
    LET components == clean_path_components(path) IN
    IF components = <<>> THEN t
    ELSE insert_from(t, <<>>, components, 0, final_is_file)

\* add_path_to_tree: the final component is requested as a file.
add_path_to_tree(t, path) == add_path_to_tree_with_type(t, path, TRUE)

----------------------------------------------------------------------------
\* The renderer.

\* str::cmp: lexicographic by bytes (for the ASCII names of the model, by
\* character code), a proper prefix before its extensions.
RECURSIVE str_cmp(_, _)
str_cmp(a, b) ==
    IF a = <<>> THEN (IF b = <<>> THEN "Equal" ELSE "Less")
    ELSE IF b = <<>> THEN "Greater"
    ELSE IF Head(a) < Head(b) THEN "Less"
    ELSE IF Head(a) > Head(b) THEN "Greater"
    ELSE str_cmp(Tail(a), Tail(b))

\* compare_children without "directories before files".
compare_children_by_name_only(t, a, b) == str_cmp(t[a].name, t[b].name)

\* The comparator handed to sort_by in render_tree.
compare_children(t, a, b) ==
    IF ~t[a].is_file /\ t[b].is_file THEN "Less"
    ELSE IF t[a].is_file /\ ~t[b].is_file THEN "Greater"
    ELSE str_cmp(t[a].name, t[b].name)

\* slice::sort_by is a stable sort: x goes behind every element that does not
\* compare Greater than it.
RECURSIVE sorted_insert(_, _, _)
sorted_insert(t, sorted, x) ==
    IF sorted = <<>> THEN <<x>>
    ELSE IF compare_children(t, sorted[Len(sorted)], x) = "Greater"
         THEN Append(sorted_insert(t, SubSeq(sorted, 1, Len(sorted) - 1), x),
                     sorted[Len(sorted)])
         ELSE Append(sorted, x)

RECURSIVE sort_by(_, _)
sort_by(t, v) ==
    IF v = <<>> THEN <<>>
    ELSE sorted_insert(t, sort_by(t, SubSeq(v, 1, Len(v) - 1)), v[Len(v)])

\* node.children.values().collect(): a HashMap enumerates its entries in an
\* order of its own, so the vector is any arrangement of the children.
values_collect(t, node) ==
    LET c == Children(t, node)
        n == Cardinality(c)
    IN {v \in [1..n -> c] : \A x \in c : \E k \in 1..n : v[k] = x}

RECURSIVE render_tree(_, _, _, _)
RECURSIVE render_children(_, _, _, _, _)

\* dir_marker with the test inverted, and next_prefix dropping the prefix it
\* was given.
dir_marker_on_files(node) == IF node.is_file THEN Slash ELSE <<>>

next_prefix_not_extended(current_prefix, is_last, is_root) ==
    IF is_last THEN SpaceBlock ELSE BarBlock

\* The connector of render_child (`child_prefix`).
child_prefix(is_last) == IF is_last THEN LastConnector ELSE MidConnector

\* "Add '/' for directories".
dir_marker(node) == IF ~node.is_file THEN Slash ELSE <<>>

\* The prefix render_child hands to the child's own children.
next_prefix(current_prefix, is_last, is_root) ==
    IF is_root
    THEN (IF is_last THEN SpaceBlock ELSE BarBlock)
    ELSE current_prefix \o (IF is_last THEN SpaceBlock ELSE BarBlock)

\* render_child without the descent into the child's own children.
render_child_without_descent(t, child, current_prefix, is_last, is_root) ==
    {(IF ~is_root THEN current_prefix ELSE <<>>)
       \o child_prefix(is_last)
       \o t[child].name
       \o dir_marker(t[child])
       \o Newline}

\* render_child with the recursive call made before the child's own line is
\* pushed.
render_child_descending_first(t, child, current_prefix, is_last, is_root) ==
    LET line == (IF ~is_root THEN current_prefix ELSE <<>>)
                \o child_prefix(is_last)
                \o t[child].name
                \o dir_marker(t[child])
                \o Newline
    IN {below \o line :
          below \in render_tree(t, child,
                                next_prefix(current_prefix, is_last, is_root),
                                FALSE)}

\* render_child: what it appends to the output, for every enumeration order
\* of the maps below the child.
render_child(t, child, current_prefix, is_last, is_root) ==
    LET line == (IF ~is_root THEN current_prefix ELSE <<>>)
                \o child_prefix(is_last)
                \o t[child].name
                \o dir_marker(t[child])
                \o Newline
    IN {line \o below :
          below \in render_tree(t, child,
                                next_prefix(current_prefix, is_last, is_root),
                                FALSE)}

\* render_children comparing the index with children.len(), which it never
\* reaches.
render_children_never_last(t, children, k, prefix, is_root) ==
    IF k > Len(children) THEN {<<>>}
    ELSE {first \o rest :
            first \in render_child(t, children[k], prefix, FALSE, is_root),
            rest \in render_children(t, children, k + 1, prefix, is_root)}

\* The loop `for (i, child) in children.iter().enumerate()` from index k
\* (counted from 1) over the sorted vector.
render_children(t, children, k, prefix, is_root) ==
    IF k > Len(children) THEN {<<>>}
    ELSE {first \o rest :
            first \in render_child(t, children[k], prefix,
                                   k = Len(children), is_root),
            rest \in render_children(t, children, k + 1, prefix, is_root)}

\* render_tree: every text it can append to the output.
render_tree(t, node, prefix, is_root) ==
    UNION {render_children(t, children, 1, prefix, is_root) :
             children \in {sort_by(t, v) : v \in values_collect(t, node)}}

\* What generate_tree can return for a batch, as a function of the batch.
RECURSIVE build_tree(_, _)
build_tree(t, ps) ==
    IF ps = <<>> THEN t
    ELSE build_tree(add_path_to_tree(t, Head(ps)), Tail(ps))

\* render_output returning the empty text for a root without children.
render_output_empty_when_childless(t) ==
    IF Children(t, <<>>) = {} THEN {<<>>}
    ELSE {Header \o body \o Newline :
            body \in render_tree(t, <<>>, <<>>, TRUE)}

\* The end of generate_tree: the header, render_tree on the root, the blank
\* line.
render_output(t) ==
    {Header \o body \o Newline : body \in render_tree(t, <<>>, <<>>, TRUE)}

generate_tree(ps) ==
    IF ps = <<>> THEN {<<>>}
    ELSE render_output(build_tree(EmptyTree, ps))

----------------------------------------------------------------------------
\* The paths of the model: "/", ".", "a", "./a", "B", "ab", "a/b", "./a/b/c",
\* "C:\a\B" and "../a".
InputPaths ==
    { <<RootDir>>,
      <<CurDir>>,
      <<Normal(<<97>>)>>,
      <<CurDir, Normal(<<97>>)>>,
      <<Normal(<<66>>)>>,
      <<Normal(<<97, 98>>)>>,
      <<Normal(<<97>>), Normal(<<98>>)>>,
      <<CurDir, Normal(<<97>>), Normal(<<98>>), Normal(<<99>>)>>,
      <<Prefix(<<67, 58>>), RootDir, Normal(<<97>>), Normal(<<66>>)>>,
      <<ParentDir, Normal(<<97>>)>> }

Batches == UNION {[1..n -> InputPaths] : n \in 0..MaxPaths}

----------------------------------------------------------------------------
\* The run of generate_tree(paths), one loop iteration at a time.

VARIABLES
    paths,          \* the argument of generate_tree
    next_path,      \* how many paths the loop `for path in paths` has taken
    tree,           \* the hierarchy under `tree`
    components,     \* add_path_to_tree_with_type: the cleaned components
    i,              \* ... the index of its loop
    current,        \* ... the node `current` points to
    final_is_file,  \* ... its argument
    output,         \* the String under `output`, the returned text when done
    pc              \* "entry", "loop", "insert" or "done"

vars == <<paths, next_path, tree, components, i, current, final_is_file,
          output, pc>>

Init ==
    /\ paths \in Batches
    /\ next_path = 0
    /\ tree = EmptyTree
    /\ components = <<>>
    /\ i = 0
    /\ current = <<>>
    /\ final_is_file = TRUE
    /\ output = <<>>
    /\ pc = "entry"

\* Entry without the early return.
EntryWithoutEarlyReturn ==
    /\ pc = "entry"
    /\ pc' = "loop"
    /\ output' = <<>>
    /\ tree' = EmptyTree
    /\ UNCHANGED <<paths, next_path, components, i, current, final_is_file>>

\* generate_tree up to its loop: the early return for an empty batch, else
\* the empty output buffer and the new root.
Entry ==
    /\ pc = "entry"
    /\ pc' = IF paths = <<>> THEN "done" ELSE "loop"
    /\ output' = <<>>
    /\ tree' = EmptyTree
    /\ UNCHANGED <<paths, next_path, components, i, current, final_is_file>>

\* add_path_to_tree passing false for final_is_file.
CallAddPathAsDirectory ==
    /\ pc = "loop"
    /\ next_path < Len(paths)
    /\ LET cs == clean_path_components(paths[next_path + 1]) IN
         /\ components' = cs
         /\ pc' = IF cs = <<>> THEN "loop" ELSE "insert"
         /\ next_path' = IF cs = <<>> THEN next_path + 1 ELSE next_path
    /\ final_is_file' = FALSE
    /\ i' = 0
    /\ current' = <<>>
    /\ UNCHANGED <<paths, tree, output>>

\* add_path_to_tree(&mut tree, path) up to the loop over the components: the
\* call returns at once when no component is left.
CallAddPath ==
    /\ pc = "loop"
    /\ next_path < Len(paths)
    /\ LET cs == clean_path_components(paths[next_path + 1]) IN
         /\ components' = cs
         /\ pc' = IF cs = <<>> THEN "loop" ELSE "insert"
         /\ next_path' = IF cs = <<>> THEN next_path + 1 ELSE next_path
    /\ final_is_file' = TRUE
    /\ i' = 0
    /\ current' = <<>>
    /\ UNCHANGED <<paths, tree, output>>

\* One iteration of the loop over the components; after the last one the
\* call returns to the loop of generate_tree.
InsertStep ==
    /\ pc = "insert"
    /\ tree' = insert_component(tree, current, components, i, final_is_file)
    /\ IF i = Len(components) - 1
       THEN /\ pc' = "loop"
            /\ next_path' = next_path + 1
            /\ UNCHANGED <<i, current>>
       ELSE /\ i' = i + 1
            /\ current' = Append(current, components[i + 1])
            /\ UNCHANGED <<pc, next_path>>
    /\ UNCHANGED <<paths, components, final_is_file, output>>

\* The header, render_tree on the root, and the blank line.
Render ==
    /\ pc = "loop"
    /\ next_path = Len(paths)
    /\ output' \in render_output(tree)
    /\ pc' = "done"
    /\ UNCHANGED <<paths, next_path, tree, components, i, current,
                   final_is_file>>

Next == Entry \/ CallAddPath \/ InsertStep \/ Render

Spec == Init /\ [][Next]_vars

----------------------------------------------------------------------------
\* generate_tree on one path, over the shapes Path::components() can yield:
\* nothing, a root, a ".", a prefix, or a prefix and a root, and behind it up
\* to MaxComponents names or "..".  The names are "src", "lib.rs" and a name
\* that is not UTF-8, "a" followed by the byte 0xFF.

PathHeads ==
    { <<>>, <<RootDir>>, <<CurDir>>, <<Prefix(<<67, 58>>)>>,
      <<Prefix(<<67, 58>>), RootDir>> }

PathTailComponents ==
    { Normal(<<115, 114, 99>>),
      Normal(<<108, 105, 98, 46, 114, 115>>),
      Normal(<<97, 255>>),
      ParentDir }

CleanPaths ==
    {h \o tl : h \in PathHeads,
               tl \in UNION {[1..n -> PathTailComponents] :
                               n \in 0..MaxComponents}}

InitClean ==
    /\ paths \in {<<p>> : p \in CleanPaths}
    /\ next_path = 0
    /\ tree = EmptyTree
    /\ components = <<>>
    /\ i = 0
    /\ current = <<>>
    /\ final_is_file = TRUE
    /\ output = <<>>
    /\ pc = "entry"

SpecClean == InitClean /\ [][Next]_vars

----------------------------------------------------------------------------
\* add_path_to_tree_with_type called on one root up to MaxCalls times, each
\* call with a path of TypedPaths ("/", ".", "a", "B", "a/b", "a/b/c") and
\* either value of final_is_file.

TypedPaths ==
    { <<RootDir>>,
      <<CurDir>>,
      <<Normal(<<97>>)>>,
      <<Normal(<<66>>)>>,
      <<Normal(<<97>>), Normal(<<98>>)>>,
      <<Normal(<<97>>), Normal(<<98>>), Normal(<<99>>)>> }

InitTyped ==
    /\ paths \in UNION {[1..n -> TypedPaths] : n \in 0..MaxCalls}
    /\ next_path = 0
    /\ tree = EmptyTree
    /\ components = <<>>
    /\ i = 0
    /\ current = <<>>
    /\ final_is_file = TRUE
    /\ output = <<>>
    /\ pc = "loop"

\* add_path_to_tree_with_type(&mut root, path, final_is_file) up to the loop
\* over the components, for either value of final_is_file.
CallWithType ==
    /\ pc = "loop"
    /\ next_path < Len(paths)
    /\ LET cs == clean_path_components(paths[next_path + 1]) IN
         /\ components' = cs
         /\ pc' = IF cs = <<>> THEN "loop" ELSE "insert"
         /\ next_path' = IF cs = <<>> THEN next_path + 1 ELSE next_path
    /\ final_is_file' \in BOOLEAN
    /\ i' = 0
    /\ current' = <<>>
    /\ UNCHANGED <<paths, tree, output>>

NextTyped == CallWithType \/ InsertStep

SpecTyped == InitTyped /\ [][NextTyped]_vars

----------------------------------------------------------------------------
\* Reading the returned text and the batch.

Done == pc = "done"

Root == <<>>

\* The arrangements of a batch.
PermutationsOf(ps) ==
    {[k \in 1..Len(ps) |-> ps[f[k]]] : f \in Permutations(1..Len(ps))}

\* a is a proper prefix of b.
ProperPrefix(a, b) == Len(a) < Len(b) /\ SubSeq(b, 1, Len(a)) = a

\* The non-empty prefixes of the component sequences of a batch.
BatchPrefixes(ps) ==
    UNION {{SubSeq(clean_path_components(ps[k]), 1, n) :
              n \in 1..Len(clean_path_components(ps[k]))} : k \in 1..Len(ps)}

\* The text cut at its line ends, as str::lines cuts it.
RECURSIVE Lines(_)
Lines(s) ==
    IF s = <<>> THEN <<>>
    ELSE IF \E k \in 1..Len(s) : s[k] = 10
         THEN LET k == CHOOSE k \in 1..Len(s) :
                          s[k] = 10 /\ \A j \in 1..(k - 1) : s[j] # 10
              IN <<SubSeq(s, 1, k - 1)>> \o Lines(SubSeq(s, k + 1, Len(s)))
         ELSE <<s>>

\* The text of the header line.
HeaderLine == SubSeq(Header, 1, Len(Header) - 1)

\* The lines between the header and the closing blank line.
EntryLines(s) ==
    LET ls == Lines(s) IN
    IF Len(ls) >= 2 THEN SubSeq(ls, 2, Len(ls) - 1) ELSE <<>>

\* The four characters of line l from position p.
Block(l, p) == SubSeq(l, p, p + 3)

\* Where the connector of an entry line starts: behind its leading blocks of
\* "│   " or "    " (0 when the line has none).
ConnectorAt(l) ==
    LET at == {p \in 1..Len(l) :
                 /\ p % 4 = 1
                 /\ p + 3 <= Len(l)
                 /\ Block(l, p) \in {LastConnector, MidConnector}
                 /\ \A q \in 1..(p - 1) :
                      q % 4 = 1 => Block(l, q) \in {BarBlock, SpaceBlock}}
    IN IF at = {} THEN 0 ELSE CHOOSE p \in at : \A q \in at : p <= q

LineDepth(l) == (ConnectorAt(l) - 1) \div 4 + 1
LineConnector(l) == Block(l, ConnectorAt(l))
LineBody(l) == SubSeq(l, ConnectorAt(l) + 4, Len(l))
LineHasSlash(l) == LineBody(l) # <<>> /\ LineBody(l)[Len(LineBody(l))] = 47
LineName(l) ==
    IF LineHasSlash(l) THEN SubSeq(LineBody(l), 1, Len(LineBody(l)) - 1)
    ELSE LineBody(l)

\* The node an entry line stands for: its name below the node of the nearest
\* line above it that is one level up.  A line that does not read as an
\* entry, or has no such line above it, stands for no node of any tree.
NoNode == <<<<>>>>

RECURSIVE NodeOf(_, _)
NodeOf(ls, k) ==
    IF ConnectorAt(ls[k]) = 0 \/ LineName(ls[k]) = <<>> THEN NoNode
    ELSE IF LineDepth(ls[k]) = 1 THEN <<LineName(ls[k])>>
    ELSE LET up == {j \in 1..(k - 1) :
                      /\ ConnectorAt(ls[j]) # 0
                      /\ LineDepth(ls[j]) = LineDepth(ls[k]) - 1}
         IN IF up = {} THEN NoNode
            ELSE LET j == CHOOSE j \in up : \A h \in up : h <= j
                     above == NodeOf(ls, j)
                 IN IF above = NoNode THEN NoNode
                    ELSE Append(above, LineName(ls[k]))

\* The node of every entry line, and the lines that stand for node n.
LineNodes(es) == [k \in 1..Len(es) |-> NodeOf(es, k)]

LinesOf(nd, n) == {k \in 1..Len(nd) : nd[k] = n}

----------------------------------------------------------------------------
\* C1: generate_tree returns the same text for every arrangement of the
\* batch: the text returned for `paths` is the only text generate_tree can
\* return for any permutation of `paths`.
OrderIndependence ==
    Done => \A q \in PermutationsOf(paths) : generate_tree(q) = {output}

\* A finished run on a batch where a path comes before a path that runs
\* through it, so that the two orders take different branches.
OrderIndependenceWitness ==
    /\ Done
    /\ \E j, k \in 1..Len(paths) :
         /\ j < k
         /\ ProperPrefix(clean_path_components(paths[j]),
                         clean_path_components(paths[k]))
    /\ Len(EntryLines(output)) >= 2

\* C2 as stated: whenever the hierarchy has no children the returned text is
\* empty, so the header is never emitted for a childless root.
EmptyTreeGivesEmptyText ==
    (Done /\ Children(tree, Root) = {}) => output = <<>>

\* C2 as the code has it: the returned text is empty exactly for the empty
\* batch; a non-empty batch that leaves the root childless returns the
\* header followed by the blank line.
EmptyTextOnlyForEmptyBatch ==
    Done => /\ (output = <<>>) <=> (paths = <<>>)
            /\ (paths # <<>> /\ Children(tree, Root) = {})
                 => output = Header \o Newline

\* A finished run on a non-empty batch whose paths all clean to nothing.
ChildlessNonEmptyBatchWitness ==
    Done /\ paths # <<>> /\ Children(tree, Root) = {}

\* C3: for the empty batch the returned text is empty: no header, no entry,
\* no blank line.
EmptyBatchGivesEmptyText ==
    (Done /\ paths = <<>>) => output = <<>>

\* A finished run on the empty batch.
EmptyBatchWitness ==
    Done /\ paths = <<>> /\ output = <<>>

----------------------------------------------------------------------------
\* Reading the hierarchy.

Nodes == DOMAIN tree \ {Root}

Parent(n) == SubSeq(n, 1, Len(n) - 1)

\* a sorts strictly before b as character strings: at the first position
\* where they differ a has the smaller code, or a ends there and b goes on.
NameLess(a, b) ==
    \E p \in 1..(Len(a) + 1) :
        /\ p <= Len(b)
        /\ \A q \in 1..(p - 1) : a[q] = b[q]
        /\ (p = Len(a) + 1 \/ a[p] < b[p])

\* Sibling a comes before sibling b in the canonical order: a directory
\* before a file, and names ascending within a kind.
CanonBefore(a, b) ==
    \/ ~tree[a].is_file /\ tree[b].is_file
    \/ /\ tree[a].is_file = tree[b].is_file
       /\ NameLess(tree[a].name, tree[b].name)

\* n is the last of its parent's children in the canonical order.
IsLastSibling(n) ==
    \A m \in Children(tree, Parent(n)) \ {n} : CanonBefore(m, n)

\* The batch without the paths whose key repeats that of an earlier path.
RECURSIVE DedupUpTo(_, _, _)
DedupUpTo(ps, keys, n) ==
    IF n = 0 THEN <<>>
    ELSE IF \E j \in 1..(n - 1) : keys[j] = keys[n]
         THEN DedupUpTo(ps, keys, n - 1)
         ELSE Append(DedupUpTo(ps, keys, n - 1), ps[n])

\* ... a path repeats another when it is the same path,
DedupPaths(ps) == DedupUpTo(ps, ps, Len(ps))

\* ... or when it has the same components.
DedupComponents(ps) ==
    DedupUpTo(ps, [k \in 1..Len(ps) |-> clean_path_components(ps[k])],
              Len(ps))

\* Every node has a line of its own and every line is a node's.
LinesMatchNodes(nd) ==
    /\ \A n \in Nodes : Cardinality(LinesOf(nd, n)) = 1
    /\ \A k \in 1..Len(nd) : nd[k] \in Nodes

----------------------------------------------------------------------------
\* C4: a path whose component sequence was inserted before (through
\* generate_tree every request is for a file) changes nothing at any step of
\* its insertion; the returned text is the one generate_tree returns for the
\* batch without its repeated paths; and no two lines stand for the same name
\* under the same parent.
DuplicateIdempotence ==
    /\ (/\ pc = "insert"
        /\ \E k \in 1..next_path :
             clean_path_components(paths[k]) = components)
         => insert_component(tree, current, components, i, final_is_file)
              = tree
    /\ Done =>
         /\ generate_tree(DedupPaths(paths)) = {output}
         /\ generate_tree(DedupComponents(paths)) = {output}
         /\ LET nd == LineNodes(EntryLines(output)) IN
            \A j, k \in 1..Len(nd) :
               j # k => nd[j] # NoNode /\ nd[j] # nd[k]

\* A finished run on a batch where a path comes again, spelled differently,
\* after a path that runs through it.
DuplicateIdempotenceWitness ==
    /\ Done
    /\ \E j, k \in 1..Len(paths) :
         /\ j + 1 < k
         /\ paths[j] # paths[k]
         /\ clean_path_components(paths[j]) = clean_path_components(paths[k])
         /\ ProperPrefix(clean_path_components(paths[j]),
                         clean_path_components(paths[j + 1]))

\* What C5 says of the node P: it is a directory, every node the batch puts
\* below it is there and rendered, and P has exactly one line, which ends in
\* "/".
Absorbed(P, es, nd) ==
    /\ P \in DOMAIN tree
    /\ ~tree[P].is_file
    /\ \A n \in BatchPrefixes(paths) :
         ProperPrefix(P, n) => n \in DOMAIN tree /\ LinesOf(nd, n) # {}
    /\ Cardinality(LinesOf(nd, P)) = 1
    /\ \A h \in LinesOf(nd, P) : LineHasSlash(es[h])

\* C5 as stated: whenever the batch holds a path P and a path whose
\* component sequence has P's as a proper prefix, P's node is a directory
\* that keeps its children and is rendered on exactly one line, ending in
\* "/".  It covers a path P of no component, whose node is the root.
ConflictAbsorptionAnyPath ==
    Done =>
      LET es == EntryLines(output)
          nd == LineNodes(es)
      IN \A j, k \in 1..Len(paths) :
           LET P == clean_path_components(paths[j])
               Q == clean_path_components(paths[k])
           IN ProperPrefix(P, Q) => Absorbed(P, es, nd)

\* C5 for the paths that have a node of their own: when the batch holds a
\* path P of at least one component and a path running through P, in
\* either order, P's node is a directory, every node the batch puts below it
\* is there, and P is rendered on exactly one line, which ends in "/".
ConflictAbsorption ==
    Done =>
      LET es == EntryLines(output)
          nd == LineNodes(es)
      IN \A j, k \in 1..Len(paths) :
           LET P == clean_path_components(paths[j])
               Q == clean_path_components(paths[k])
           IN (P # <<>> /\ ProperPrefix(P, Q)) => Absorbed(P, es, nd)

\* A finished run where the path P came after a path running through it.
ConflictAbsorptionWitness ==
    /\ Done
    /\ \E j, k \in 1..Len(paths) :
         /\ k < j
         /\ clean_path_components(paths[j]) # <<>>
         /\ ProperPrefix(clean_path_components(paths[j]),
                         clean_path_components(paths[k]))

\* C6: among the lines of one parent's children the directories come before
\* the files and the names ascend strictly within each kind, and the
\* rendering is the same for every order in which the maps enumerate.
CanonicalSiblingOrder ==
    Done =>
      /\ Cardinality(render_tree(tree, Root, <<>>, TRUE)) = 1
      /\ paths # <<>> =>
           LET nd == LineNodes(EntryLines(output)) IN
           /\ LinesMatchNodes(nd)
           /\ \A j, k \in 1..Len(nd) :
                (j < k /\ Parent(nd[j]) = Parent(nd[k]))
                  => CanonBefore(nd[j], nd[k])

\* A finished run where the root has a directory and the files "B" and "a":
\* the directory sorts first although its name is not the least, and "B"
\* sorts before "a" by character code.
CanonicalSiblingOrderWitness ==
    /\ Done
    /\ {<<<<66>>>>, <<<<97>>>>} \subseteq Nodes
    /\ tree[<<<<66>>>>].is_file /\ tree[<<<<97>>>>].is_file
    /\ \E n \in Children(tree, Root) : ~tree[n].is_file

\* C7: for a batch that yields a node, the text is the header line, one
\* entry line for each node other than the root, and one empty line; the
\* entry lines are as many as the distinct non-empty prefixes of the batch's
\* component sequences.
OutputStructure ==
    (Done /\ Nodes # {}) =>
      LET ls == Lines(output)
          es == EntryLines(output)
      IN /\ ls[1] = HeaderLine
         /\ Len(ls) = Len(es) + 2
         /\ ls[Len(ls)] = <<>>
         /\ output[Len(output)] = 10
         /\ \A k \in 1..Len(es) : es[k] # <<>>
         /\ Len(es) = Cardinality(BatchPrefixes(paths))
         /\ Len(es) = Cardinality(Nodes)
         /\ LinesMatchNodes(LineNodes(es))

\* A finished run whose text has at least four entry lines.
OutputStructureWitness ==
    Done /\ Len(EntryLines(output)) >= 4

\* C8: a node's line has the connector "└── " exactly when the node is the
\* last of its parent's children in the canonical order, and "├── "
\* otherwise; each group of siblings has one "└── " line, its last.
ConnectorChoice ==
    (Done /\ paths # <<>>) =>
      LET es == EntryLines(output)
          nd == LineNodes(es)
      IN
      /\ LinesMatchNodes(nd)
      /\ \A n \in Nodes : \A k \in LinesOf(nd, n) :
           LineConnector(es[k]) =
             IF IsLastSibling(n) THEN LastConnector ELSE MidConnector
      /\ \A p \in DOMAIN tree :
           Children(tree, p) # {} =>
             \E n \in Children(tree, p) : \A k \in LinesOf(nd, n) :
               /\ LineConnector(es[k]) = LastConnector
               /\ \A m \in Children(tree, p) \ {n} : \A h \in LinesOf(nd, m) :
                    h < k /\ LineConnector(es[h]) = MidConnector

\* A finished run where some node has at least two children and the root
\* has at least two.
ConnectorChoiceWitness ==
    /\ Done
    /\ Cardinality(Children(tree, Root)) >= 2
    /\ \E n \in Nodes : Cardinality(Children(tree, n)) >= 2

\* C9: a node's line ends in "/" behind the node's name exactly when the
\* node is a directory; a file's line ends with the bare name.
DirectoryMarker ==
    (Done /\ paths # <<>>) =>
      LET es == EntryLines(output)
          nd == LineNodes(es)
      IN
      /\ LinesMatchNodes(nd)
      /\ \A n \in Nodes : \A k \in LinesOf(nd, n) :
           /\ LineHasSlash(es[k]) <=> ~tree[n].is_file
           /\ LineBody(es[k]) =
                IF tree[n].is_file THEN tree[n].name
                ELSE tree[n].name \o Slash

\* A finished run with a directory that holds a directory and a file.
DirectoryMarkerWitness ==
    /\ Done
    /\ \E n \in Nodes :
         /\ ~tree[n].is_file
         /\ \E a, b \in Children(tree, n) :
              tree[a].is_file /\ ~tree[b].is_file

\* C10: the line of a node at depth d starts with d-1 blocks of four
\* characters and then its connector; block h is "│   " when the node's
\* ancestor at depth h is not the last of its siblings and four spaces when
\* it is.
PrefixPropagation ==
    (Done /\ paths # <<>>) =>
      LET es == EntryLines(output)
          nd == LineNodes(es)
      IN
      /\ LinesMatchNodes(nd)
      /\ \A n \in Nodes : \A k \in LinesOf(nd, n) :
           /\ ConnectorAt(es[k]) = 4 * (Len(n) - 1) + 1
           /\ \A h \in 1..(Len(n) - 1) :
                Block(es[k], 4 * (h - 1) + 1) =
                  IF IsLastSibling(SubSeq(n, 1, h)) THEN SpaceBlock
                  ELSE BarBlock

\* A finished run with a node at depth 3 whose ancestor at depth 1 is not
\* the last of its siblings, and one whose ancestor at depth 1 is.
PrefixPropagationWitness ==
    /\ Done
    /\ \E n \in Nodes :
         /\ Len(n) = 3
         /\ ~IsLastSibling(SubSeq(n, 1, 1))
         /\ ~IsLastSibling(SubSeq(n, 1, 2))
         /\ IsLastSibling(n)

----------------------------------------------------------------------------
\* Reading the components of a path.

\* The path whose components the variable `components` holds: the one under
\* insertion, or the one the loop of generate_tree took last.
CleanedPath ==
    IF pc = "insert" THEN paths[next_path + 1]
    ELSE IF next_path >= 1 /\ next_path <= Len(paths) THEN paths[next_path]
    ELSE <<>>

\* `components` holds the components of some path.
Cleaned ==
    pc = "insert" \/ (pc \in {"loop", "done"} /\ next_path >= 1)

\* The places of a path that are a name or a "..", and how many of them
\* there are up to place k.
KeptPlaces(path) ==
    {k \in 1..Len(path) : path[k].kind \in {"ParentDir", "Normal"}}

KeptUpTo(path, k) == Cardinality({j \in KeptPlaces(path) : j <= k})

\* s is valid UTF-8 (of the model's bytes, those below 128 and 0xF8..0xFF).
ValidText(s) == \A k \in 1..Len(s) : s[k] < 128

\* r is s with each byte that is no UTF-8 replaced by U+FFFD.
LossyCopy(r, s) ==
    /\ Len(r) = Len(s)
    /\ \A k \in 1..Len(s) : r[k] = IF s[k] < 128 THEN s[k] ELSE 65533

\* cs is the path's names and ".." in their order, nothing else, with
\* copied(r, s) telling when r is a copy of the name s.
CleanedAs(cs, path, copied(_, _)) ==
    /\ Len(cs) = Cardinality(KeptPlaces(path))
    /\ \A k \in KeptPlaces(path) :
         IF path[k].kind = "ParentDir"
         THEN cs[KeptUpTo(path, k)] = <<46, 46>>
         ELSE copied(cs[KeptUpTo(path, k)], path[k].text)

Verbatim(r, s) == r = s

\* No node is named ".".
NoCurDirNode == \A n \in Nodes : tree[n].name # <<46>> /\ n[Len(n)] # <<46>>

\* C11 as stated: the components are the path's names and ".." in their
\* order, without prefix, root and ".", every name copied verbatim; and no
\* node is named ".".
CleanCopiesVerbatim ==
    /\ Cleaned => CleanedAs(components, CleanedPath, Verbatim)
    /\ NoCurDirNode

\* C11 as the code has it: a name that is valid UTF-8 is copied verbatim, and
\* in any other name each byte that is no UTF-8 becomes U+FFFD.
CleanCopiesLossily ==
    /\ Cleaned =>
         /\ CleanedAs(components, CleanedPath, LossyCopy)
         /\ \A k \in KeptPlaces(CleanedPath) :
              (CleanedPath[k].kind = "Normal"
                 /\ ValidText(CleanedPath[k].text))
                => components[KeptUpTo(CleanedPath, k)] = CleanedPath[k].text
    /\ NoCurDirNode

\* "./src/../src/lib.rs" is under insertion, as "src", "..", "src", "lib.rs",
\* and its first three nodes are there.
CleanWitness ==
    /\ pc = "insert"
    /\ CleanedPath = <<CurDir, Normal(<<115, 114, 99>>), ParentDir,
                       Normal(<<115, 114, 99>>),
                       Normal(<<108, 105, 98, 46, 114, 115>>)>>
    /\ components = <<<<115, 114, 99>>, <<46, 46>>, <<115, 114, 99>>,
                      <<108, 105, 98, 46, 114, 115>>>>
    /\ i = 3

----------------------------------------------------------------------------
\* C12: in every state, between the iterations of an insertion too, no node
\* is a file while it has a child.
NoFileHasChildren ==
    \A n \in DOMAIN tree : tree[n].is_file => Children(tree, n) = {}

\* A call that asked for a file at a directory with children has returned,
\* and a later call is between two of its iterations.
NoFileHasChildrenWitness ==
    /\ pc = "insert"
    /\ i >= 1
    /\ \E k \in 1..next_path :
         LET P == clean_path_components(paths[k]) IN
         /\ P \in Nodes
         /\ ~tree[P].is_file
         /\ Children(tree, P) # {}
         /\ \E j \in 1..(k - 1) :
              ProperPrefix(P, clean_path_components(paths[j]))
    /\ \E n \in Nodes : tree[n].is_file

----------------------------------------------------------------------------
\* The kind the final component's node has after the insertion: `existing`
\* is "none", "file" or "directory", has_children tells whether the existing
\* node has children, and the result is TRUE for a file.
ResolvedIsFile(existing, has_children, file_requested) ==
    CASE existing = "none" -> file_requested
      [] existing = "file" /\ file_requested -> TRUE
      [] existing = "file" /\ ~file_requested -> FALSE
      [] existing = "directory" /\ file_requested /\ ~has_children -> TRUE
      [] existing = "directory" /\ file_requested /\ has_children -> FALSE
      [] existing = "directory" /\ ~file_requested -> FALSE

\* What the tree holds at `key`.
ExistingAt(t, key) ==
    IF key \notin DOMAIN t THEN "none"
    ELSE IF t[key].is_file THEN "file" ELSE "directory"

\* The insertion is at its final component.
AtFinalComponent == pc = "insert" /\ i = Len(components) - 1

\* The node the final component names.
FinalKey == Append(current, components[i + 1])

\* C13: the iteration for the final component leaves the node with the kind
\* of the table, for every existing kind and requested kind; a new node
\* carries the component as name, and no other node, name or child changes.
FinalComponentTable ==
    AtFinalComponent =>
      LET after == insert_component(tree, current, components, i, final_is_file)
          key == FinalKey
      IN /\ DOMAIN after = DOMAIN tree \cup {key}
         /\ \A n \in DOMAIN tree \ {key} : after[n] = tree[n]
         /\ after[key].name = IF key \in DOMAIN tree THEN tree[key].name
                              ELSE components[i + 1]
         /\ after[key].is_file =
              ResolvedIsFile(ExistingAt(tree, key),
                             key \in DOMAIN tree /\ Children(tree, key) # {},
                             final_is_file)

\* A file is requested where a directory without children exists, next to
\* other nodes.
FinalComponentTableWitness ==
    /\ AtFinalComponent
    /\ final_is_file
    /\ ExistingAt(tree, FinalKey) = "directory"
    /\ Children(tree, FinalKey) = {}
    /\ Cardinality(DOMAIN tree) >= 3

----------------------------------------------------------------------------
\* The two requests give the same tree from t in either order.
SameEitherOrder(t, p1, f1, p2, f2) ==
    add_path_to_tree_with_type(add_path_to_tree_with_type(t, p1, f1), p2, f2)
      = add_path_to_tree_with_type(add_path_to_tree_with_type(t, p2, f2), p1, f1)

\* The two requests name the same node of t with different kinds, and the
\* node is absent from t or has no children in it.
KindsClash(t, p1, f1, p2, f2) ==
    LET c1 == clean_path_components(p1)
        c2 == clean_path_components(p2)
    IN /\ c1 = c2
       /\ c1 # <<>>
       /\ f1 # f2
       /\ (c1 \in DOMAIN t => Children(t, c1) = {})

\* The tree is as a sequence of completed calls has left it.
BetweenCalls == pc = "loop"

\* C14 as stated: from every tree between two calls, any two requests give
\* the same tree in either order, whatever kinds they ask for.
InsertionsCommute ==
    BetweenCalls =>
      \A p1, p2 \in TypedPaths : \A f1, f2 \in BOOLEAN :
        SameEitherOrder(tree, p1, f1, p2, f2)

\* C14 as the code has it: two requests give the same tree in either order
\* exactly when they do not ask for different kinds at one node that has no
\* children; two requests of one kind always do.
InsertionsCommuteUnlessKindsClash ==
    BetweenCalls =>
      \A p1, p2 \in TypedPaths : \A f1, f2 \in BOOLEAN :
        SameEitherOrder(tree, p1, f1, p2, f2) <=> ~KindsClash(tree, p1, f1, p2, f2)

\* Two calls with different kinds have returned, and the tree holds a
\* directory with children, a directory without, and a file.
InsertionsCommuteWitness ==
    /\ BetweenCalls
    /\ next_path >= 2
    /\ \E n \in Nodes : ~tree[n].is_file /\ Children(tree, n) # {}
    /\ \E n \in Nodes : ~tree[n].is_file /\ Children(tree, n) = {}
    /\ \E n \in Nodes : tree[n].is_file

----------------------------------------------------------------------------
\* The path holds only prefix, root and "." components, or none at all.
ZeroComponents(path) ==
    \A k \in 1..Len(path) : path[k].kind \in {"Prefix", "RootDir", "CurDir"}

\* The next call is made with a path of zero components.
ZeroComponentCall ==
    /\ pc = "loop"
    /\ next_path < Len(paths)
    /\ ZeroComponents(paths[next_path + 1])

\* C15: a call with a path of zero components returns at once, with either
\* requested kind: the tree is unchanged, root included, the loop over the
\* components is not entered, and the caller goes on to the next path.
ZeroComponentsNoOp ==
    [][ZeroComponentCall =>
         /\ tree' = tree
         /\ pc' = "loop"
         /\ next_path' = next_path + 1
         /\ UNCHANGED <<paths, output>>]_vars

\* A call with "." or "/" has returned on a tree that holds nodes, and the
\* tree is what the calls before it built.
ZeroComponentsNoOpWitness ==
    /\ pc = "loop"
    /\ next_path >= 2
    /\ ZeroComponents(paths[next_path])
    /\ ~ZeroComponents(paths[next_path - 1])
    /\ Cardinality(DOMAIN tree) >= 3
    /\ tree[<<>>] = new

----------------------------------------------------------------------------
\* n and the nodes below it.
Subtree(n) ==
    {m \in Nodes : Len(m) >= Len(n) /\ SubSeq(m, 1, Len(n)) = n}

\* C16: the entry lines are laid out depth first and parents first: a
\* node's line comes before the lines of the nodes below it, the lines of a
\* node and of the nodes below it are consecutive, and of two siblings the
\* one first in the canonical order has its whole subtree before the line of
\* the other.
PreOrderLayout ==
    (Done /\ paths # <<>>) =>
      LET nd == LineNodes(EntryLines(output))
          line == [n \in Nodes |-> CHOOSE k \in 1..Len(nd) : nd[k] = n]
      IN /\ LinesMatchNodes(nd)
         /\ \A n \in Nodes :
              /\ \A m \in Subtree(n) \ {n} : line[n] < line[m]
              /\ {line[m] : m \in Subtree(n)}
                   = line[n]..(line[n] + Cardinality(Subtree(n)) - 1)
         /\ \A a, b \in Nodes :
              (a # b /\ Parent(a) = Parent(b) /\ CanonBefore(a, b))
                => \A m \in Subtree(a) : line[m] < line[b]

\* A finished run where two sibling directories each have a subtree of two
\* nodes or more, one of them three levels deep.
PreOrderLayoutWitness ==
    /\ Done
    /\ \E a, b \in Nodes :
         /\ a # b
         /\ Parent(a) = Parent(b)
         /\ Cardinality(Subtree(a)) >= 3
         /\ Cardinality(Subtree(b)) >= 2
         /\ \E m \in Subtree(a) : Len(m) = Len(a) + 2

----------------------------------------------------------------------------
\* Some path of the batch runs through the node n and goes on below it.
RoutedThrough(n) ==
    \E k \in 1..Len(paths) : ProperPrefix(n, clean_path_components(paths[k]))

\* C17: between the calls of generate_tree and at its end, a node other than
\* the root is a directory exactly when it has a child; every request is for
\* a file, and one that meets a directory meets one with children, so the
\* branch that turns a directory without children into a file is not taken;
\* in the returned text the line of a path's final component has no "/"
\* exactly when no path of the batch runs through it.
DirectoryIffChildren ==
    /\ pc \in {"loop", "done"} =>
         \A n \in Nodes : ~tree[n].is_file <=> Children(tree, n) # {}
    /\ pc = "insert" => final_is_file
    /\ (AtFinalComponent /\ ExistingAt(tree, FinalKey) = "directory")
         => Children(tree, FinalKey) # {}
    /\ (Done /\ paths # <<>>) =>
         LET es == EntryLines(output)
             nd == LineNodes(es)
         IN \A k \in 1..Len(paths) :
              LET P == clean_path_components(paths[k]) IN
              P # <<>> =>
                /\ LinesOf(nd, P) # {}
                /\ \A h \in LinesOf(nd, P) :
                     ~LineHasSlash(es[h]) <=> ~RoutedThrough(P)

\* A finished run where a path came after a path that runs through it, and
\* another path's final component stayed a file.
DirectoryIffChildrenWitness ==
    /\ Done
    /\ \E j, k \in 1..Len(paths) :
         /\ j < k
         /\ ProperPrefix(clean_path_components(paths[k]),
                         clean_path_components(paths[j]))
    /\ \E k \in 1..Len(paths) :
         /\ clean_path_components(paths[k]) \in Nodes
         /\ tree[clean_path_components(paths[k])].is_file
    /\ Len(EntryLines(output)) >= 3

====
